---- MODULE Spec2Model ----
(***************************************************************************)
(* Model of multiagent1.py: run_agents and its helpers                     *)
(* execute_code_in_docker, create_github_pr and send_email.                *)
(*                                                                         *)
(* Text is modelled as a sequence of one-character strings so that the     *)
(* substring tests of the code ("def " in ..., "SAFE" not in ...) are      *)
(* computed, not assumed.                                                   *)
(***************************************************************************)
EXTENDS Integers, Sequences, FiniteSets, TLC

VARIABLES pc, transcript, message, stepCalls, code,
          sandboxCalls, tempdir, container, progOut, written, result,
          runningAtStop, execPath, output,
          prCalls, prLink, branchExists, fileCommitted, prOpen,
          committed, emailCalls, emailSent, emailBody, outcome,
          sandboxArg, gateCalls, prFailedAt, refCollision, branchOwner,
          runNo, delivered

vars == <<pc, transcript, message, stepCalls, code,
          sandboxCalls, tempdir, container, progOut, written, result,
          runningAtStop, execPath, output,
          prCalls, prLink, branchExists, fileCommitted, prOpen,
          committed, emailCalls, emailSent, emailBody, outcome,
          sandboxArg, gateCalls, prFailedAt, refCollision, branchOwner,
          runNo, delivered>>

agentVars == <<transcript, message, stepCalls>>
boxVars == <<sandboxCalls, sandboxArg, tempdir, container, progOut, written, result,
             runningAtStop, execPath, output>>
hostVars == <<prCalls, prLink, branchExists, fileCommitted, prOpen, committed,
              prFailedAt, refCollision, branchOwner>>
mailVars == <<emailCalls, emailSent, emailBody>>
ctlVars == <<gateCalls, runNo, delivered>>

\* number of consecutive runs of run_agents against the same repository
MaxRuns == 2

(***************************************************************************)
(* Text                                                                    *)
(***************************************************************************)
None == <<"None">>

\* Python's `sub in s` on str: some window of s equals sub.
Contains(s, sub) ==
    \E i \in 0..(Len(s) - Len(sub)) : SubSeq(s, i + 1, i + Len(sub)) = sub

DefMarker == <<"d", "e", "f", " ">>
SafeMarker == <<"S", "A", "F", "E">>

\* line 78: the literal that starts every failure description
ExecFailedPrefix ==
    <<"E", "x", "e", "c", "u", "t", "i", "o", "n", " ",
      "f", "a", "i", "l", "e", "d", ":", " ">>

\* line 167: the literal that starts the e-mail body; "U+1F389" stands for
\* the one character of that code point
TaskCompletePrefix ==
    <<"U+1F389", " ", "T", "a", "s", "k", " ", "c", "o", "m", "p", "l",
      "e", "t", "e", "!", " ", "P", "R", ":", " ">>

\* Texts an agent turn may return (orchestrator.step is a black box).
EmptyText == << >>
DefF == <<"d", "e", "f", " ", "f">>
NoDef == <<"d", "e", "f", "x">>
TurnTexts == {EmptyText, DefF, NoDef}

\* Complete outputs the sandboxed program may produce (bytes).
OutSafe == <<"S", "A", "F", "E">>
OutLower == <<"s", "a", "f", "e">>
OutBadByte == <<"xFF">>
ProgOutputs == {OutSafe, OutLower, OutBadByte}

\* str(e) of the exceptions the container runtime may raise.
ErrPlain == <<"e", "r", "r">>
ErrSafe == <<"U", "N", "S", "A", "F", "E">>
ErrTexts == {ErrPlain, ErrSafe}

\* decimal digits, for the numbers Python formats into its messages
DigitChars == <<"0", "1", "2", "3", "4", "5", "6", "7", "8", "9">>

RECURSIVE Decimal(_)
\* str(n) for a natural number n
Decimal(n) ==
    IF n < 10 THEN <<DigitChars[n + 1]>>
    ELSE Decimal(n \div 10) \o <<DigitChars[(n % 10) + 1]>>

\* the parts of str(e) of the UnicodeDecodeError of line 75 before and
\* after the position of the offending byte
DecodeErrHead ==
    <<"'", "u", "t", "f", "-", "8", "'", " ", "c", "o", "d", "e", "c", " ",
      "c", "a", "n", "'", "t", " ", "d", "e", "c", "o", "d", "e", " ", "b",
      "y", "t", "e", " ", "0", "x", "f", "f", " ", "i", "n", " ", "p", "o",
      "s", "i", "t", "i", "o", "n", " ">>
DecodeErrTail ==
    <<":", " ", "i", "n", "v", "a", "l", "i", "d", " ", "s", "t", "a", "r",
      "t", " ", "b", "y", "t", "e">>

\* index (from 0) of the first byte of bytes that is not UTF-8
FirstBadByte(bytes) ==
    (CHOOSE i \in 1..Len(bytes) :
        /\ bytes[i] = "xFF"
        /\ \A j \in 1..(i - 1) : bytes[j] # "xFF") - 1

\* str(e) of the UnicodeDecodeError result.decode() raises on bytes
ErrDecode(bytes) ==
    DecodeErrHead \o Decimal(FirstBadByte(bytes)) \o DecodeErrTail

\* html_url of the pull request the hosting service returns
PrUrl == <<"u", "r", "l">>

(***************************************************************************)
(* Pure pieces of the code                                                 *)
(***************************************************************************)
\* participants of group_chat, in order
order == <<"Planner", "Writer", "Sanitizer", "Reviewer", "Notifier">>

\* role that produced the i-th turn (i = 1 is the first orchestrator.step):
\* the participants speak in the order of the list, round and round, so the
\* sixth turn of a run is the Planner's again
RoleOf(i) == order[((i - 1) % Len(order)) + 1]

\* line 145: one step before the loop
InitialTurns == 1
\* line 148: range(5)
LoopTurns == 5

\* line 152: "def " in message.content
IsCode(text) == Contains(text, DefMarker)

\* line 152: code = message.content if "def " in message.content else None
ExtractCode(msg) == IF IsCode(msg) THEN msg ELSE None

\* line 153: `if not code`
NoCode(c) == c = None \/ c = EmptyText

\* line 161: "SAFE" not in output
GateFails(out) == ~Contains(out, SafeMarker)

\* line 75: result.decode() raises on bytes that are not UTF-8
Decodable(bytes) == \A i \in 1..Len(bytes) : bytes[i] # "xFF"

\* line 78: f"Execution failed: {str(e)}"
FailureText(e) == ExecFailedPrefix \o e

\* the branch of line 166 never taken
HasLinkNever(link) == FALSE

\* the branch of line 166 taken whatever create_github_pr returned
HasLinkAlways(link) == TRUE

\* line 166: `if pr_link`
HasLink(link) == link # None /\ link # EmptyText

\* lines 158 and 60: the text run_agents hands to execute_code_in_docker,
\* which writes it to script.py unchanged
ScriptText(c) == c

\* lines 165 and 88: the text run_agents hands to create_github_pr, which
\* commits it unchanged
PublishedContent(c) == c

\* create_github_pr returning the URL although create_pull raised
PrResultLenient(failAt) == IF failAt \in {"none", "pull"} THEN PrUrl ELSE None

\* lines 96-99: the URL when no step raised, None from the except branch
PrResult(failAt) == IF failAt = "none" THEN PrUrl ELSE None

\* line 86: the branch name create_github_pr uses in run number r
BranchName(r) == "auto/feature-agent"

\* line 167: the body of the success e-mail
EmailBody(link) == TaskCompletePrefix \o link

(***************************************************************************)
(* Initial state: run_agents has been called, nothing has happened yet.    *)
(***************************************************************************)
Init ==
    /\ pc = "step"
    /\ transcript = << >>
    /\ message = None
    /\ stepCalls = 0
    /\ code = None
    /\ sandboxCalls = 0
    /\ tempdir = FALSE
    /\ container = "none"
    /\ progOut = EmptyText
    /\ written = 0
    /\ result = EmptyText
    /\ runningAtStop = FALSE
    /\ execPath = "none"
    /\ output = None
    /\ prCalls = 0
    /\ prLink = None
    /\ branchExists \in BOOLEAN
    /\ fileCommitted = FALSE
    /\ prOpen = FALSE
    /\ committed = None
    /\ emailCalls = 0
    /\ emailSent = FALSE
    /\ emailBody = None
    /\ outcome = "running"
    /\ sandboxArg = None
    /\ gateCalls = 0
    /\ prFailedAt = "notcalled"
    /\ refCollision = FALSE
    /\ branchOwner = 0
    /\ runNo = 1
    /\ delivered = 0

(***************************************************************************)
(* run_agents, lines 145-149: the agent turns                              *)
(***************************************************************************)
\* the turns stop as soon as a turn returns code
AgentTurnEarly ==
    /\ pc = "step"
    /\ \E text \in TurnTexts :
         /\ transcript' = Append(transcript, text)
         /\ message' = text
         /\ pc' = IF stepCalls + 1 = InitialTurns + LoopTurns \/ IsCode(text)
                   THEN "extract" ELSE "step"
    /\ stepCalls' = stepCalls + 1
    /\ UNCHANGED <<code, ctlVars, boxVars, hostVars, mailVars, outcome>>

\* the turns stop at a turn that returns empty text
AgentTurnStopsOnEmpty ==
    /\ pc = "step"
    /\ \E text \in TurnTexts :
         /\ transcript' = Append(transcript, text)
         /\ message' = text
         /\ pc' = IF stepCalls + 1 = InitialTurns + LoopTurns \/ text = EmptyText
                   THEN "extract" ELSE "step"
    /\ stepCalls' = stepCalls + 1
    /\ UNCHANGED <<code, ctlVars, boxVars, hostVars, mailVars, outcome>>

\* orchestrator.step returns a message
AgentTurn ==
    /\ pc = "step"
    /\ \E text \in TurnTexts :
         /\ transcript' = Append(transcript, text)
         /\ message' = text
    /\ stepCalls' = stepCalls + 1
    /\ pc' = IF stepCalls + 1 = InitialTurns + LoopTurns THEN "extract" ELSE "step"
    /\ UNCHANGED <<code, ctlVars, boxVars, hostVars, mailVars, outcome>>

\* orchestrator.step raises: nothing in run_agents catches it
AgentTurnRaises ==
    /\ pc = "step"
    /\ stepCalls' = stepCalls + 1
    /\ pc' = "done"
    /\ outcome' = "Raised"
    /\ UNCHANGED <<transcript, message, code, ctlVars, boxVars, hostVars, mailVars>>

\* lines 152-155: the final decision on the last message
Extract ==
    /\ pc = "extract"
    /\ code' = ExtractCode(message)
    /\ IF NoCode(ExtractCode(message))
         THEN pc' = "done" /\ outcome' = "NoArtifact"
         ELSE pc' = "from_env" /\ UNCHANGED outcome
    /\ UNCHANGED <<agentVars, ctlVars, boxVars, hostVars, mailVars>>

(***************************************************************************)
(* execute_code_in_docker, lines 54-78                                     *)
(***************************************************************************)
\* line 55: docker.from_env() returns a client
DockerFromEnv ==
    /\ pc = "from_env"
    /\ sandboxCalls' = sandboxCalls + 1
    /\ sandboxArg' = ScriptText(code)
    /\ pc' = "tempdir"
    /\ UNCHANGED <<agentVars, code, ctlVars, tempdir, container, progOut, written,
                   result, runningAtStop, execPath, output, hostVars,
                   mailVars, outcome>>

\* line 55: docker.from_env() raises; the call is outside the try block, so
\* the exception leaves execute_code_in_docker and then run_agents
DockerFromEnvRaises ==
    /\ pc = "from_env"
    /\ sandboxCalls' = sandboxCalls + 1
    /\ sandboxArg' = ScriptText(code)
    /\ execPath' = "escaped"
    /\ pc' = "done"
    /\ outcome' = "Raised"
    /\ UNCHANGED <<agentVars, code, ctlVars, tempdir, container, progOut, written,
                   result, runningAtStop, output, hostVars, mailVars>>

\* lines 76-78: the except branch; leaving the with block deletes the
\* temporary directory, the container is not touched
ExceptReturn(e) ==
    /\ tempdir' = FALSE
    /\ output' = FailureText(e)
    /\ execPath' = "failed"
    /\ pc' = "gate"

\* lines 57 and 76-78: leaving the with block deletes the temporary
\* directory; when that deletion raises, after the return value of line 75
\* was computed or while an exception of lines 58-75 is on its way out,
\* the except branch returns the text of the deletion's exception and the
\* directory is still there
TempDirCleanupRaises ==
    /\ pc \in {"tempdir", "run", "logs", "remove", "decode"}
    /\ tempdir' = TRUE
    /\ \E e \in ErrTexts : output' = FailureText(e)
    /\ execPath' = "failed"
    /\ pc' = "gate"
    /\ UNCHANGED <<agentVars, code, ctlVars, sandboxCalls, sandboxArg,
                   container, progOut, written, result, runningAtStop,
                   hostVars, mailVars, outcome>>

\* lines 57-60: the temporary directory is created and script.py written
MakeTempDir ==
    /\ pc = "tempdir"
    /\ tempdir' = TRUE
    /\ pc' = "run"
    /\ UNCHANGED <<agentVars, code, ctlVars, sandboxCalls, sandboxArg, container, progOut, written,
                   result, runningAtStop, execPath, output, hostVars,
                   mailVars, outcome>>

\* lines 57-60 raise (no space left, permission)
MakeTempDirRaises ==
    /\ pc = "tempdir"
    /\ \E e \in ErrTexts : ExceptReturn(e)
    /\ UNCHANGED <<agentVars, code, ctlVars, sandboxCalls, sandboxArg, container, progOut, written,
                   result, runningAtStop, hostVars, mailVars, outcome>>

\* lines 62-71: containers.run(detach=True) starts the container and returns
\* at once; progOut is what the program will have printed when it is done
ContainersRun ==
    /\ pc = "run"
    /\ container' = "running"
    /\ progOut' \in ProgOutputs
    /\ written' = 0
    /\ pc' = "logs"
    /\ UNCHANGED <<agentVars, code, ctlVars, sandboxCalls, sandboxArg, tempdir, result,
                   runningAtStop, execPath, output, hostVars, mailVars,
                   outcome>>

\* lines 62-71 raise (image missing, daemon unreachable)
ContainersRunRaises ==
    /\ pc = "run"
    /\ \E e \in ErrTexts : ExceptReturn(e)
    /\ UNCHANGED <<agentVars, code, ctlVars, sandboxCalls, sandboxArg, container, progOut, written,
                   result, runningAtStop, hostVars, mailVars, outcome>>

\* the sandboxed process prints its next byte
ProcessWrite ==
    /\ container = "running"
    /\ written < Len(progOut)
    /\ written' = written + 1
    /\ UNCHANGED <<pc, agentVars, code, ctlVars, sandboxCalls, sandboxArg, tempdir, container,
                   progOut, result, runningAtStop, execPath, output,
                   hostVars, mailVars, outcome>>

\* the sandboxed process terminates by itself
ProcessExit ==
    /\ container = "running"
    /\ written = Len(progOut)
    /\ container' = "exited"
    /\ UNCHANGED <<pc, agentVars, code, ctlVars, sandboxCalls, sandboxArg, tempdir, progOut,
                   written, result, runningAtStop, execPath, output,
                   hostVars, mailVars, outcome>>

\* line 73: container.logs(stdout=True, stderr=True) returns what has been
\* printed so far (no stream, no follow, no wait)
ContainerLogs ==
    /\ pc = "logs"
    /\ result' = SubSeq(progOut, 1, written)
    /\ pc' = "remove"
    /\ UNCHANGED <<agentVars, code, ctlVars, sandboxCalls, sandboxArg, tempdir, container, progOut,
                   written, runningAtStop, execPath, output, hostVars,
                   mailVars, outcome>>

\* line 73 raises: line 74 is skipped
ContainerLogsRaises ==
    /\ pc = "logs"
    /\ \E e \in ErrTexts : ExceptReturn(e)
    /\ UNCHANGED <<agentVars, code, ctlVars, sandboxCalls, sandboxArg, container, progOut, written,
                   result, runningAtStop, hostVars, mailVars, outcome>>

\* line 74: container.remove(force=True) kills the process if it is still
\* running and removes the container
ContainerRemove ==
    /\ pc = "remove"
    /\ runningAtStop' = (container = "running")
    /\ container' = "removed"
    /\ pc' = "decode"
    /\ UNCHANGED <<agentVars, code, ctlVars, sandboxCalls, sandboxArg, tempdir, progOut, written,
                   result, execPath, output, hostVars, mailVars, outcome>>

\* line 74 raises
ContainerRemoveRaises ==
    /\ pc = "remove"
    /\ \E e \in ErrTexts : ExceptReturn(e)
    /\ UNCHANGED <<agentVars, code, ctlVars, sandboxCalls, sandboxArg, container, progOut, written,
                   result, runningAtStop, hostVars, mailVars, outcome>>

\* line 75: return result.decode(); a UnicodeDecodeError goes to the except
\* branch
ReturnResult ==
    /\ pc = "decode"
    /\ IF Decodable(result)
         THEN /\ tempdir' = FALSE
              /\ output' = result
              /\ execPath' = "ok"
              /\ pc' = "gate"
         ELSE ExceptReturn(ErrDecode(result))
    /\ UNCHANGED <<agentVars, code, ctlVars, sandboxCalls, sandboxArg, container, progOut, written,
                   result, runningAtStop, hostVars, mailVars, outcome>>

(***************************************************************************)
(* run_agents, lines 161-170: gate and delivery                            *)
(***************************************************************************)
\* a gate that runs the sandbox again when the marker is missing
GateRetries ==
    /\ pc = "gate"
    /\ gateCalls' = gateCalls + 1
    /\ pc' = IF GateFails(output) THEN "from_env" ELSE "publish"
    /\ UNCHANGED <<agentVars, code, runNo, delivered, boxVars, hostVars,
                   mailVars, outcome>>

\* lines 161-163
Gate ==
    /\ pc = "gate"
    /\ gateCalls' = gateCalls + 1
    /\ IF GateFails(output)
         THEN pc' = "done" /\ outcome' = "Aborted"
         ELSE pc' = "publish" /\ UNCHANGED outcome
    /\ UNCHANGED <<agentVars, code, runNo, delivered, boxVars, hostVars,
                   mailVars>>

\* step of create_github_pr that raises, "none" when no step does
PrSteps == {"repo", "ref", "file", "pull", "none"}

\* create_github_pr with a branch name that never exists yet
CreateGithubPrFreshBranch ==
    /\ pc = "publish"
    /\ prCalls' = prCalls + 1
    /\ \E failAt \in PrSteps :
         /\ prFailedAt' = failAt
         /\ refCollision' = FALSE
         /\ branchExists' = (branchExists \/ failAt \in {"file", "pull", "none"})
         /\ branchOwner' = IF failAt \in {"file", "pull", "none"}
                             THEN runNo ELSE branchOwner
         /\ fileCommitted' = (fileCommitted \/ failAt \in {"pull", "none"})
         /\ committed' = IF failAt \in {"pull", "none"}
                           THEN PublishedContent(code) ELSE committed
         /\ prOpen' = (prOpen \/ failAt = "none")
         /\ prLink' = PrResult(failAt)
    /\ IF HasLink(prLink')
         THEN pc' = "notify" /\ UNCHANGED outcome
         ELSE pc' = "done" /\ outcome' = "DeliveryFailed"
    /\ UNCHANGED <<agentVars, code, ctlVars, boxVars, mailVars>>

\* lines 81-99 called from line 165, and the branch of line 166.
\* create_git_ref raises when refs/heads/auto/feature-agent exists already;
\* nothing that was created is deleted when a later step raises.
\* branchOwner is the run that created the branch (0: it was there before
\* the first run), committed the content this run committed.
CreateGithubPr ==
    /\ pc = "publish"
    /\ prCalls' = prCalls + 1
    /\ \E failAt \in PrSteps :
         /\ branchExists => failAt \in {"repo", "ref"}
         /\ prFailedAt' = failAt
         /\ refCollision' = (branchExists /\ failAt = "ref")
         /\ branchExists' = (branchExists \/ failAt \in {"file", "pull", "none"})
         /\ branchOwner' = IF failAt \in {"file", "pull", "none"}
                             THEN runNo ELSE branchOwner
         /\ fileCommitted' = (fileCommitted \/ failAt \in {"pull", "none"})
         /\ committed' = IF failAt \in {"pull", "none"}
                           THEN PublishedContent(code) ELSE committed
         /\ prOpen' = (prOpen \/ failAt = "none")
         /\ prLink' = PrResult(failAt)
    /\ IF HasLink(prLink')
         THEN pc' = "notify" /\ UNCHANGED outcome
         ELSE pc' = "done" /\ outcome' = "DeliveryFailed"
    /\ UNCHANGED <<agentVars, code, ctlVars, boxVars, mailVars>>

\* send_email letting a transport failure out to run_agents
SendEmailPropagates ==
    /\ pc = "notify"
    /\ emailCalls' = emailCalls + 1
    /\ emailBody' = EmailBody(prLink)
    /\ \E ok \in BOOLEAN :
         /\ emailSent' = ok
         /\ outcome' = IF ok THEN "Delivered" ELSE "Raised"
         /\ delivered' = IF ok THEN delivered + 1 ELSE delivered
    /\ pc' = "done"
    /\ UNCHANGED <<agentVars, code, gateCalls, runNo, boxVars, hostVars>>

\* lines 39-51 called from line 168: every failure is caught inside
\* send_email, run_agents then returns
SendEmail ==
    /\ pc = "notify"
    /\ emailCalls' = emailCalls + 1
    /\ emailBody' = EmailBody(prLink)
    /\ emailSent' \in BOOLEAN
    /\ pc' = "done"
    /\ outcome' = "Delivered"
    /\ delivered' = delivered + 1
    /\ UNCHANGED <<agentVars, code, gateCalls, runNo, boxVars, hostVars>>

\* lines 173-177: the program is started again for another task; the
\* repository keeps what earlier runs created, everything else is fresh
NewRun ==
    /\ pc = "done"
    /\ runNo < MaxRuns
    /\ runNo' = runNo + 1
    /\ pc' = "step"
    /\ transcript' = << >>
    /\ message' = None
    /\ stepCalls' = 0
    /\ code' = None
    /\ sandboxCalls' = 0
    /\ sandboxArg' = None
    /\ tempdir' = FALSE
    /\ container' = "none"
    /\ progOut' = EmptyText
    /\ written' = 0
    /\ result' = EmptyText
    /\ runningAtStop' = FALSE
    /\ execPath' = "none"
    /\ output' = None
    /\ gateCalls' = 0
    /\ prCalls' = 0
    /\ prLink' = None
    /\ prFailedAt' = "notcalled"
    /\ refCollision' = FALSE
    /\ committed' = None
    /\ emailCalls' = 0
    /\ emailSent' = FALSE
    /\ emailBody' = None
    /\ outcome' = "running"
    /\ UNCHANGED <<branchExists, branchOwner, fileCommitted, prOpen, delivered>>

Next ==
    \/ AgentTurn
    \/ AgentTurnRaises
    \/ Extract
    \/ DockerFromEnv
    \/ DockerFromEnvRaises
    \/ MakeTempDir
    \/ MakeTempDirRaises
    \/ TempDirCleanupRaises
    \/ ContainersRun
    \/ ContainersRunRaises
    \/ ProcessWrite
    \/ ProcessExit
    \/ ContainerLogs
    \/ ContainerLogsRaises
    \/ ContainerRemove
    \/ ContainerRemoveRaises
    \/ ReturnResult
    \/ Gate
    \/ CreateGithubPr
    \/ SendEmail
    \/ NewRun

Spec == Init /\ [][Next]_vars

TypeOK ==
    /\ pc \in {"step", "extract", "from_env", "tempdir", "run", "logs",
               "remove", "decode", "gate", "publish", "notify", "done"}
    /\ stepCalls \in 0..(InitialTurns + LoopTurns)
    /\ Len(transcript) <= stepCalls
    /\ container \in {"none", "running", "exited", "removed"}
    /\ execPath \in {"none", "ok", "failed", "escaped"}
    /\ outcome \in {"running", "Delivered", "Aborted", "NoArtifact",
                    "DeliveryFailed", "Raised"}
    /\ runNo \in 1..MaxRuns
    /\ gateCalls \in 0..1
    /\ prFailedAt \in PrSteps \cup {"notcalled"}
    /\ branchOwner \in 0..MaxRuns
    /\ delivered \in 0..MaxRuns

(***************************************************************************)
(* Vocabulary of the properties                                            *)
(***************************************************************************)
\* one full cycle through the roles, run once
MAX_TURNS == Len(order)

\* execute_code_in_docker has returned to run_agents
SandboxReturned == execPath \in {"ok", "failed"}

\* the normal return of line 75, as opposed to the except branch
ExecSucceeded == execPath = "ok"

\* the gate let the run through to line 165
Proceeded == pc = "publish" \/ prCalls > 0

\* the gate has been evaluated on the sandbox output
GateDecided == SandboxReturned /\ pc \in {"publish", "notify", "done"}

\* all agent turns are over and lines 152-153 have run
Extracted == Len(transcript) = InitialTurns + LoopTurns /\ pc # "extract"

WriterDefTurns(tr) ==
    {i \in 1..Len(tr) : RoleOf(i) = "Writer" /\ Contains(tr[i], DefMarker)}

\* text of the most recent Writer turn with a function-definition marker
LastWriterCode(tr) ==
    IF WriterDefTurns(tr) = {} THEN None
    ELSE tr[CHOOSE i \in WriterDefTurns(tr) :
                \A j \in WriterDefTurns(tr) : j <= i]

\* failure description of a timed-out execution
ErrTimeout == <<"t", "i", "m", "e", "o", "u", "t">>

(***************************************************************************)
(* Properties                                                              *)
(***************************************************************************)
\* a container was started on the artifact of this run
SandboxExecuted == container # "none"

\* C1: create_github_pr and send_email are invoked only after the sandbox
\* has executed the artifact (a container ran it and execute_code_in_docker
\* returned its output) and that output contains 'SAFE'; when the returned
\* output omits the marker the run ends Aborted with neither of them
\* invoked.
C1_SideEffectsGated ==
    /\ (prCalls > 0 \/ emailCalls > 0 \/ pc \in {"publish", "notify"})
          => /\ sandboxCalls = 1
             /\ SandboxExecuted
             /\ ExecSucceeded
             /\ Contains(output, SafeMarker)
    /\ (GateDecided /\ ~Contains(output, SafeMarker))
          => /\ prCalls = 0
             /\ emailCalls = 0
             /\ pc = "done"
             /\ outcome = "Aborted"

\* C2: the gate proceeds if and only if the sandbox output contains the
\* marker 'SAFE' and the execution succeeded.
C2_ProceedIffMarkerAndSucceeded ==
    GateDecided =>
        (Proceeded <=> (Contains(output, SafeMarker) /\ ExecSucceeded))

\* C3: when execute_code_in_docker fails, the gate aborts and
\* create_github_pr is not invoked, whatever the failure text contains.
C3_FailureAlwaysAborts ==
    (execPath = "failed" /\ pc \in {"publish", "notify", "done"})
        => /\ ~Proceeded
           /\ outcome = "Aborted"

\* C4: after the agent turns, the artifact is the text of the most recent
\* Writer turn of the transcript that contains 'def '.
C4_ArtifactIsLastWriterDef ==
    Extracted => code = LastWriterCode(transcript)

\* C5: when no Writer turn contains 'def ', the run ends NoArtifact after
\* exactly MAX_TURNS agent turns and calls neither the sandbox nor
\* create_github_pr nor send_email.
C5_NoWriterDefNoArtifact ==
    (Extracted /\ LastWriterCode(transcript) = None)
        => /\ pc = "done"
           /\ outcome = "NoArtifact"
           /\ stepCalls = MAX_TURNS
           /\ sandboxCalls = 0
           /\ prCalls = 0
           /\ emailCalls = 0

\* C6: a run makes at most MAX_TURNS agent-turn calls, at most one sandbox
\* call and at most one publish/notify pair.
C6_BoundedCalls ==
    /\ stepCalls <= MAX_TURNS
    /\ sandboxCalls <= 1
    /\ prCalls <= 1
    /\ emailCalls <= 1

\* C7: no exception escapes run_agents; a finished run has one of the four
\* outcomes.
C7_NoExceptionEscapes ==
    /\ outcome # "Raised"
    /\ pc = "done" =>
          outcome \in {"Delivered", "Aborted", "NoArtifact", "DeliveryFailed"}

\* C8: once execute_code_in_docker has returned, by whatever path, the
\* container it started is removed and its temporary directory deleted.
C8_TornDownOnReturn ==
    SandboxReturned => (container \in {"none", "removed"} /\ ~tempdir)

\* C9: a process that was still running when it was stopped is reported as
\* a failed execution with reason 'timeout' and never leads to PROCEED.
C9_TimeoutReported ==
    (SandboxReturned /\ runningAtStop)
        => /\ execPath = "failed"
           /\ output = FailureText(ErrTimeout)
           /\ ~Proceeded

\* C10: send_email is invoked only in a run where create_github_pr returned
\* a reference; a run that ends NoArtifact, Aborted or DeliveryFailed sends
\* no notification.
C10_EmailOnlyWithReference ==
    /\ (emailCalls > 0 \/ pc = "notify")
          => (prCalls = 1 /\ prLink = PrUrl /\ prOpen)
    /\ outcome \in {"NoArtifact", "Aborted", "DeliveryFailed"}
          => (emailCalls = 0 /\ emailBody = None)
    /\ emailBody # None => emailBody = EmailBody(PrUrl)

\* a delivered run: the pull request exists and one e-mail was attempted
C10_Witness ==
    /\ outcome = "Delivered"
    /\ emailCalls = 1
    /\ prLink = PrUrl

\* C11 as stated: after PROCEED, notify is invoked whether publish returned
\* a reference or not.
C11_NotifyInBothCases ==
    (pc = "done" /\ prCalls = 1) => emailCalls = 1

\* C11 amended: after PROCEED, notify is invoked exactly when publish
\* returned a reference, with the success message; when publish returned
\* no reference nothing is sent and the run ends DeliveryFailed.
C11_NotifyOnlyOnSuccess ==
    (pc = "done" /\ prCalls = 1) =>
        IF prLink = PrUrl
          THEN emailCalls = 1 /\ emailBody = EmailBody(PrUrl)
          ELSE emailCalls = 0 /\ emailBody = None
                 /\ outcome = "DeliveryFailed"

\* a run that proceeded, whose publish returned no reference, has ended
\* without any notification
C11_Witness ==
    /\ pc = "done"
    /\ prCalls = 1
    /\ prLink = None
    /\ emailCalls = 0
    /\ gateCalls = 1

\* C12: a run executes the extracted artifact in the sandbox once, decides
\* the gate once and retries nothing; a run that ends Delivered has invoked
\* create_github_pr and send_email exactly once each.
C12_SingleAttempt ==
    /\ sandboxCalls <= 1
    /\ gateCalls <= 1
    /\ prCalls <= 1
    /\ emailCalls <= 1
    /\ sandboxCalls = 1 => sandboxArg = code
    /\ (pc = "done" /\ outcome \in {"Aborted", "DeliveryFailed", "Delivered"})
          => (sandboxCalls = 1 /\ gateCalls = 1)
    /\ (pc = "done" /\ outcome = "Delivered")
          => (prCalls = 1 /\ emailCalls = 1)

\* a delivered run with one sandbox call, one gate decision, one publish and
\* one notification
C12_Witness ==
    /\ pc = "done"
    /\ outcome = "Delivered"
    /\ sandboxCalls = 1
    /\ gateCalls = 1
    /\ prCalls = 1
    /\ emailCalls = 1

\* C13: the publish of a run never fails because of the branch that
\* another run created.
C13_NoBranchCollision ==
    ~(refCollision /\ branchOwner \in 1..(runNo - 1)
        /\ BranchName(branchOwner) = BranchName(runNo))

\* C14: the logs are collected only once the sandboxed process has
\* terminated, and what is collected is its complete output.
C14_LogsAfterTermination ==
    [][(pc = "logs" /\ pc' = "remove")
          => (container = "exited" /\ result' = progOut)]_vars

\* C15: the steps of a run follow each other: the sandbox is called after
\* the last agent turn, the gate is decided after the sandbox returned,
\* create_github_pr is called after the gate and send_email after
\* create_github_pr returned a link; while one step is in progress no later
\* step has begun.
C15_StepsOrdered ==
    /\ stepCalls - Len(transcript) \in {0, 1}
    /\ sandboxCalls > 0
          => (stepCalls = InitialTurns + LoopTurns
                /\ Len(transcript) = stepCalls)
    /\ gateCalls > 0 => (sandboxCalls = 1 /\ SandboxReturned)
    /\ prCalls > 0 => gateCalls = 1
    /\ emailCalls > 0 => (prCalls = 1 /\ prFailedAt = "none")
    /\ pc \in {"step", "extract"}
          => (sandboxCalls = 0 /\ gateCalls = 0 /\ prCalls = 0
                /\ emailCalls = 0)
    /\ pc \in {"from_env", "tempdir", "run", "logs", "remove", "decode"}
          => (gateCalls = 0 /\ prCalls = 0 /\ emailCalls = 0)
    /\ pc = "publish" => (prCalls = 0 /\ emailCalls = 0)
    /\ pc = "notify" => emailCalls = 0

\* a run between the gate and the call of create_github_pr
C15_Witness ==
    /\ pc = "publish"
    /\ stepCalls = InitialTurns + LoopTurns
    /\ sandboxCalls = 1
    /\ gateCalls = 1
    /\ prCalls = 0

\* C16: whatever texts the turns return, empty ones included, a run in
\* which no turn raises makes the same number of agent-turn calls, and each
\* returned text is one turn of the transcript.
C16_EmptyTurnNoShortCircuit ==
    pc # "step" =>
        \/ /\ stepCalls = InitialTurns + LoopTurns
           /\ Len(transcript) = stepCalls
        \/ /\ outcome = "Raised"
           /\ Len(transcript) = stepCalls - 1

\* all turns are over although an early turn returned empty text
C16_Witness ==
    /\ pc = "extract"
    /\ Len(transcript) = InitialTurns + LoopTurns
    /\ transcript[2] = EmptyText
    /\ transcript[InitialTurns + LoopTurns] = DefF

\* C17: create_github_pr returns the URL exactly when none of its steps
\* raised; when a step raised, also after the branch or the file was
\* created, it returns None, is not called again and run_agents ends
\* DeliveryFailed without an exception.
C17_UrlIffAllStepsSucceed ==
    /\ prCalls <= 1
    /\ prCalls = 1 =>
         /\ prLink = PrUrl <=> prFailedAt = "none"
         /\ prFailedAt = "none"
               => (branchExists /\ fileCommitted /\ prOpen
                     /\ branchOwner = runNo)
         /\ prFailedAt # "none"
               => (prLink = None /\ pc = "done"
                     /\ outcome = "DeliveryFailed")

\* the branch was created, the commit raised: no reference, run failed
C17_Witness ==
    /\ prCalls = 1
    /\ prFailedAt = "file"
    /\ branchOwner = runNo
    /\ prLink = None
    /\ outcome = "DeliveryFailed"

\* C18: when send_email fails the run still ends Delivered, the pull
\* request stays and send_email is not called again.
C18_EmailFailureContained ==
    (emailCalls > 0 /\ ~emailSent)
        => /\ pc = "done"
           /\ outcome = "Delivered"
           /\ prOpen
           /\ prLink = PrUrl
           /\ emailCalls = 1

\* a run whose e-mail could not be sent
C18_Witness ==
    /\ emailCalls = 1
    /\ ~emailSent
    /\ outcome = "Delivered"

\* C19: what create_github_pr commits in a run is the text that was handed
\* to execute_code_in_docker in that run, which is the artifact extracted
\* from the last message and not changed since, and nothing is committed
\* that a sandbox container did not execute first.
C19_PublishedIsExecuted ==
    /\ committed # None
          => /\ sandboxCalls = 1
             /\ SandboxReturned
             /\ SandboxExecuted
             /\ committed = sandboxArg
             /\ committed = code
    /\ sandboxArg # None => sandboxArg = code
    /\ pc \notin {"step", "extract"} /\ stepCalls = InitialTurns + LoopTurns
          /\ Len(transcript) = stepCalls
          => code = ExtractCode(message)

\* C20: the branch name is the same in every run and the branch is never
\* deleted; in a run that finds the branch, create_github_pr does not get
\* past the branch creation and returns None, so at most one run ends
\* Delivered.
C20_FixedBranchBlocksLaterRuns ==
    [][/\ branchExists => branchExists'
       /\ BranchName(runNo') = BranchName(1)
       /\ delivered' <= 1
       /\ (pc = "publish" /\ branchExists /\ prCalls' = 1)
             => /\ prLink' = None
                /\ prFailedAt' \in {"repo", "ref"}
                /\ outcome' = "DeliveryFailed"
                /\ UNCHANGED <<fileCommitted, prOpen, branchOwner>>]_vars

\* the second run failed at the branch the first, delivered, run had created
C20_Witness ==
    /\ runNo = 2
    /\ delivered = 1
    /\ branchOwner = 1
    /\ refCollision
    /\ outcome = "DeliveryFailed"

====
